---- MODULE Spec2Model ----
(***************************************************************************)
(* Model of the anti-spam membership subsystem:                            *)
(*   - ValkeyBannedEmailRepository over a Valkey set (the store),          *)
(*   - RepositoryAntiSpamAdapter (the Gate, fail-open),                    *)
(*   - Email value object (plain and anti-spam-aware construction).        *)
(* A JavaScript string is a sequence of one-character strings, so that     *)
(* toLowerCase, trim and the e-mail regular expression are computed the    *)
(* way the code computes them.                                             *)
(***************************************************************************)
EXTENDS Naturals, Integers, Sequences, FiniteSets, Bags, TLC

(***************************************************************************)
(* Bounds of the model.                                                    *)
(***************************************************************************)
\* number of blanks put before and after an address in a padded input
MaxPad == 1
\* largest number of members the model lets the banned set grow to
MaxStore == 2

(***************************************************************************)
(* Strings.                                                                *)
(***************************************************************************)
UpperLetters == {"A", "B", "C"}

\* String.prototype.toLowerCase on one character
LowerChar(c) ==
  CASE c = "A" -> "a"
    [] c = "B" -> "b"
    [] c = "C" -> "c"
    [] OTHER -> c

UpperChar(c) ==
  CASE c = "a" -> "A"
    [] c = "b" -> "B"
    [] c = "c" -> "C"
    [] OTHER -> c

\* toLowerCase with a fault: the argument is used as it is
toLowerCase_Identity(s) == s

\* String.prototype.toLowerCase
toLowerCase(s) == [i \in 1..Len(s) |-> LowerChar(s[i])]

toUpperCase(s) == [i \in 1..Len(s) |-> UpperChar(s[i])]

\* the characters the regular expression class \s and trim() treat as blank
IsSpace(c) == c = " "

RECURSIVE trimStart(_)
trimStart(s) ==
  IF s = <<>> THEN s
  ELSE IF IsSpace(Head(s)) THEN trimStart(Tail(s)) ELSE s

RECURSIVE trimEnd(_)
trimEnd(s) ==
  IF s = <<>> THEN s
  ELSE IF IsSpace(s[Len(s)]) THEN trimEnd(SubSeq(s, 1, Len(s) - 1)) ELSE s

\* String.prototype.trim
trim(s) == trimEnd(trimStart(s))

\* String.prototype.includes('..')
hasConsecutiveDots(email) ==
  \E i \in 1..(Len(email) - 1) : email[i] = "." /\ email[i + 1] = "."

\* one or more characters of the class [^\s@], positions lo..hi
PlainRun(s, lo, hi) ==
  /\ lo <= hi
  /\ \A k \in lo..hi : ~IsSpace(s[k]) /\ s[k] # "@"

\* EMAIL_REGEX = /^[^\s@]+@[^\s@]+\.[^\s@]+$/
EMAIL_REGEX(s) ==
  \E i \in 1..Len(s) : \E j \in 1..Len(s) :
    /\ i < j
    /\ s[i] = "@"
    /\ s[j] = "."
    /\ PlainRun(s, 1, i - 1)
    /\ PlainRun(s, i + 1, j - 1)
    /\ PlainRun(s, j + 1, Len(s))

MaxEmailLength == 254

\* Email.isValid with a fault: consecutive dots are let through
isValid_AllowsDotDot(email) ==
  /\ Len(email) > 0
  /\ Len(email) <= MaxEmailLength
  /\ EMAIL_REGEX(email)

\* Email.isValid with a fault: the length is not bounded
isValid_NoLengthLimit(email) ==
  /\ Len(email) > 0
  /\ ~hasConsecutiveDots(email)
  /\ EMAIL_REGEX(email)

\* Email.isValid
isValid(email) ==
  /\ Len(email) > 0
  /\ Len(email) <= MaxEmailLength
  /\ ~hasConsecutiveDots(email)
  /\ EMAIL_REGEX(email)

(***************************************************************************)
(* The inputs callers pass: two addresses and one string without '@',      *)
(* each in lower and upper case, bare or with blanks before and after.     *)
(***************************************************************************)
Addr1 == <<"a", "@", "b", ".", "c">>
Addr2 == <<"b", "@", "b", ".", "c">>
NoAt == <<"a", "b">>

Bases == {Addr1, Addr2, NoAt}

Blanks(n) == [i \in 1..n |-> " "]

Paddings(s) == {s, Blanks(MaxPad) \o s \o Blanks(MaxPad)}

Inputs == UNION {Paddings(b) \cup Paddings(toUpperCase(b)) : b \in Bases}


(***************************************************************************)
(* State.                                                                  *)
(*   store    the members of the Valkey set kept under setKey              *)
(*   storeUp  whether a call to the Valkey client succeeds                 *)
(*   last     the last call a caller made and what came back from it       *)
(*   calls    for each of the concurrent callers, the call it is making    *)
(*            and how far the call has got                                 *)
(*   applied  the concurrent callers whose command the store has applied,  *)
(*            in the order the store applied them                          *)
(***************************************************************************)
VARIABLES store, storeUp, last, calls, applied

vars == <<store, storeUp, last, calls, applied>>

\* the record of a call, before anything is filled in
NoCall ==
  [op |-> "none",          \* the operation called
   arg |-> <<>>,           \* its email argument
   outcome |-> "returned", \* "returned" or "thrown"
   ret |-> FALSE,          \* the boolean returned
   members |-> EmptyBag,   \* the array returned by getAllBanned
   value |-> <<>>,         \* the value of the Email returned
   error |-> "none",       \* what was thrown
   carried |-> <<>>,       \* the string the error message carries
   storeOps |-> <<>>,      \* the commands sent to the Valkey client
   repoCalls |-> 0,        \* the calls the Gate made to the repository
   gateCalls |-> 0,        \* the calls made to the Gate
   logged |-> 0,           \* the console.error reports
   part |-> <<>>,          \* the string an accessor of the Email returned
   pc |-> "done",          \* how far the call has got
   before |-> {}]          \* the members of the set when the call began

Call(op, email) == [NoCall EXCEPT !.op = op, !.arg = email, !.before = store]

(***************************************************************************)
(* The Valkey set commands the repository uses.                            *)
(***************************************************************************)
sismember(set, member) == member \in set
sadd(set, newMembers) == set \cup newMembers
srem(set, oldMembers) == set \ oldMembers
smembers(set) == set
del(set) == {}

\* StoreUnavailable with a fault: the rejection is swallowed and the method
\* returns its default value
StoreUnavailable_Swallowed(op, email, command) ==
  [Call(op, email) EXCEPT !.storeOps = <<command>>]

\* a rejected client call: the promise of the repository method rejects
StoreUnavailable(op, email, command) ==
  [Call(op, email) EXCEPT !.outcome = "thrown",
                          !.error = "StoreUnavailable",
                          !.storeOps = <<command>>]

(***************************************************************************)
(* ValkeyBannedEmailRepository.  First what each method does with the set  *)
(* kept under setKey, then what the method gives back to its caller in the *)
(* current state.                                                          *)
(***************************************************************************)
\* isBannedIn with a fault: the argument is looked up as it was passed
isBannedIn_Raw(set, email) == sismember(set, email)

\* isBanned: sismember(setKey, email.toLowerCase())
isBannedIn(set, email) == sismember(set, toLowerCase(email))

\* banned with a fault: the argument is stored as it was passed
banned_Raw(set, email) == sadd(set, {email})

\* banned with a fault: the key is overwritten with the one new member
banned_Overwrite(set, email) == {toLowerCase(email)}

\* ban: sadd(setKey, [email.toLowerCase()])
banned(set, email) == sadd(set, {toLowerCase(email)})

\* unbanned with a fault: the whole key is deleted
unbanned_DeleteKey(set, email) == del(set)

\* unban: srem(setKey, [email.toLowerCase()])
unbanned(set, email) == srem(set, {toLowerCase(email)})

\* getAllBanned: Array.from(members).filter(typeof string).map(toLowerCase),
\* as a bag: an array in no particular order, with the number of times each
\* entry occurs in it
allBanned(set) ==
  LET members == smembers(set)
  IN  [s \in {toLowerCase(m) : m \in members} |->
         Cardinality({m \in members : toLowerCase(m) = s})]

\* cleared with a fault: the key is left as it is
cleared_KeepsMembers(set) == set

\* clear: del([setKey])
cleared(set) == del(set)

isBanned(email) ==
  IF storeUp
  THEN [Call("isBanned", email) EXCEPT !.ret = isBannedIn(store, email),
                                       !.storeOps = <<"sismember">>]
  ELSE StoreUnavailable("isBanned", email, "sismember")

ban(email) ==
  IF storeUp
  THEN [Call("ban", email) EXCEPT !.storeOps = <<"sadd">>]
  ELSE StoreUnavailable("ban", email, "sadd")

unban(email) ==
  IF storeUp
  THEN [Call("unban", email) EXCEPT !.storeOps = <<"srem">>]
  ELSE StoreUnavailable("unban", email, "srem")

getAllBanned ==
  IF storeUp
  THEN [Call("getAllBanned", <<>>) EXCEPT !.members = allBanned(store),
                                          !.storeOps = <<"smembers">>]
  ELSE StoreUnavailable("getAllBanned", <<>>, "smembers")

clear ==
  IF storeUp
  THEN [Call("clear", <<>>) EXCEPT !.storeOps = <<"del">>]
  ELSE StoreUnavailable("clear", <<>>, "del")

(***************************************************************************)
(* InMemoryBannedEmailRepository.  Its set bannedEmails starts empty and   *)
(* no method adds to it, so it is empty whenever a method is called.       *)
(***************************************************************************)
bannedEmails == {}

\* throw new Error('Method not implemented.')
NotImplemented(op, email) ==
  [Call(op, email) EXCEPT !.outcome = "thrown", !.error = "NotImplemented"]

\* what the method `op` of the in-memory repository gives back
inMemoryResult(op, email) ==
  CASE op = "clear" -> Call(op, email)   \* this.bannedEmails.clear()
    [] OTHER -> NotImplemented(op, email)

(***************************************************************************)
(* RepositoryAntiSpamAdapter (the Gate).                                   *)
(***************************************************************************)
\* isBlocked with a fault: fail-closed, an unanswered check blocks
isBlocked_FailClosed(email) ==
  LET r == isBanned(email)
  IN  IF r.outcome = "returned"
      THEN [r EXCEPT !.op = "isBlocked", !.repoCalls = 1]
      ELSE [Call("isBlocked", email) EXCEPT !.ret = TRUE,
                                            !.storeOps = r.storeOps,
                                            !.repoCalls = 1,
                                            !.logged = 1]

\* isBlocked with a fault: the Gate keeps its last answer and gives it again
\* when it is asked about the same email
isBlocked_Cached(email) ==
  IF last.op = "isBlocked" /\ last.arg = email
  THEN last
  ELSE LET r == isBanned(email)
       IN  IF r.outcome = "returned"
           THEN [r EXCEPT !.op = "isBlocked", !.repoCalls = 1]
           ELSE [Call("isBlocked", email) EXCEPT !.ret = FALSE,
                                                 !.storeOps = r.storeOps,
                                                 !.repoCalls = 1,
                                                 !.logged = 1]

\* isBlocked with a fault: a failed check is tried a second time
isBlocked_Retry(email) ==
  LET r == isBanned(email)
  IN  IF r.outcome = "returned"
      THEN [r EXCEPT !.op = "isBlocked", !.repoCalls = 1]
      ELSE [Call("isBlocked", email) EXCEPT !.ret = FALSE,
                                            !.storeOps = r.storeOps \o r.storeOps,
                                            !.repoCalls = 2,
                                            !.logged = 1]

\* isBlocked with a fault: the error of the repository is let through
isBlocked_Rethrow(email) ==
  [isBanned(email) EXCEPT !.op = "isBlocked", !.repoCalls = 1]

\* isBlocked with a fault: the answer of the repository is negated
isBlocked_Negated(email) ==
  LET r == isBanned(email)
  IN  IF r.outcome = "returned"
      THEN [r EXCEPT !.op = "isBlocked", !.repoCalls = 1, !.ret = ~r.ret]
      ELSE [Call("isBlocked", email) EXCEPT !.ret = FALSE,
                                            !.storeOps = r.storeOps,
                                            !.repoCalls = 1,
                                            !.logged = 1]

isBlocked(email) ==
  LET r == isBanned(email)
  IN  IF r.outcome = "returned"
      THEN \* return await this.bannedEmailRepository.isBanned(email)
           [r EXCEPT !.op = "isBlocked", !.repoCalls = 1]
      ELSE \* catch: console.error(...); return false
           [Call("isBlocked", email) EXCEPT !.ret = FALSE,
                                            !.storeOps = r.storeOps,
                                            !.repoCalls = 1,
                                            !.logged = 1]

(***************************************************************************)
(* Email.                                                                  *)
(***************************************************************************)
\* new Email(email) with a fault: the rejection carries the normalized input
Email_CarriesNormalized(from, email) ==
  LET normalizedEmail == trim(email)
  IN  IF ~isValid(normalizedEmail)
      THEN [from EXCEPT !.outcome = "thrown",
                        !.error = "InvalidFormat",
                        !.carried = toLowerCase(normalizedEmail)]
      ELSE [from EXCEPT !.value = toLowerCase(normalizedEmail)]

\* new Email(email) with a fault: the value keeps the case of the input
Email_KeepsCase(from, email) ==
  LET normalizedEmail == trim(email)
  IN  IF ~isValid(normalizedEmail)
      THEN [from EXCEPT !.outcome = "thrown",
                        !.error = "InvalidFormat",
                        !.carried = email]
      ELSE [from EXCEPT !.value = normalizedEmail]

\* new Email(email), reached from the call `from`
Email(from, email) ==
  LET normalizedEmail == trim(email)
  IN  IF ~isValid(normalizedEmail)
      THEN \* throw new Error(`Invalid email format: ${email}`)
           [from EXCEPT !.outcome = "thrown",
                        !.error = "InvalidFormat",
                        !.carried = email]
      ELSE \* super(normalizedEmail.toLowerCase())
           [from EXCEPT !.value = toLowerCase(normalizedEmail)]

\* Email.create with a fault: it asks the Gate first
create_ViaGate(email) ==
  LET g == isBlocked(email)
      from == [Call("create", email) EXCEPT
                 !.storeOps = g.storeOps,
                 !.repoCalls = g.repoCalls,
                 !.gateCalls = 1,
                 !.logged = g.logged]
  IN  IF g.ret
      THEN [from EXCEPT !.outcome = "thrown",
                        !.error = "Blocked",
                        !.carried = email]
      ELSE Email(from, email)

\* Email.create
create(email) == Email(Call("create", email), email)

\* Email.createWithAntiSpam, with the Gate over the Valkey repository
createWithAntiSpam(email) ==
  LET g == isBlocked(email)
      from == [Call("createWithAntiSpam", email) EXCEPT
                 !.storeOps = g.storeOps,
                 !.repoCalls = g.repoCalls,
                 !.gateCalls = 1,
                 !.logged = g.logged]
  IN  IF g.outcome = "thrown"
      THEN \* an error of the Gate would pass through the await
           [from EXCEPT !.outcome = "thrown", !.error = g.error]
      ELSE IF g.ret
      THEN \* throw new Error(`Email is blocked or blacklisted: ${email}`)
           [from EXCEPT !.outcome = "thrown",
                        !.error = "Blocked",
                        !.carried = email]
      ELSE Email(from, email)

\* the first position of character c in s, or 0 when s has none
indexOf(s, c) ==
  IF \E i \in 1..Len(s) : s[i] = c
  THEN CHOOSE i \in 1..Len(s) : s[i] = c /\ \A k \in 1..(i - 1) : s[k] # c
  ELSE 0

\* String.prototype.split(separator): the pieces of s between separators
RECURSIVE split(_, _)
split(s, separator) ==
  LET at == indexOf(s, separator)
  IN  IF at = 0 THEN <<s>>
      ELSE <<SubSeq(s, 1, at - 1)>> \o split(SubSeq(s, at + 1, Len(s)), separator)

\* what indexing an array past its end gives
undefined == <<"undefined">>

\* array[index], with indices from 0 as in the code
elementAt(array, index) ==
  IF index + 1 <= Len(array) THEN array[index + 1] ELSE undefined

\* Email.getDomain with a fault: it takes the piece before the '@'
getDomain_FirstPiece(value) == elementAt(split(value, "@"), 0)

\* Email.getDomain, on the value of an Email
getDomain(value) == elementAt(split(value, "@"), 1)

\* Email.getUserPart, on the value of an Email
getUserPart(value) == elementAt(split(value, "@"), 0)

\* ValueObject.equals, on the values of two Emails: the JSON texts of two
\* strings are equal exactly when the strings are
equals(value, other) == value = other

(***************************************************************************)
(* EmailWithoutSpan, with the Gate over the Valkey repository injected as  *)
(* its anti-spam port.                                                     *)
(***************************************************************************)
\* the constructor: this._value = email.toLowerCase()
EmailWithoutSpan(from, email) == [from EXCEPT !.value = toLowerCase(email)]

\* EmailWithoutSpan.create: return new EmailWithoutSpan(email, mockAdapter)
EmailWithoutSpan_create(email) ==
  EmailWithoutSpan(Call("EmailWithoutSpan.create", email), email)

\* new EmailWithoutSpan(email, port).isValid():
\* return this._antiSpamPort.isBlocked(this._value)
EmailWithoutSpan_isValid(email) ==
  LET this == EmailWithoutSpan(Call("EmailWithoutSpan.isValid", email), email)
      g == isBlocked(this.value)
  IN  [this EXCEPT !.outcome = g.outcome,
                   !.error = g.error,
                   !.ret = g.ret,
                   !.storeOps = g.storeOps,
                   !.repoCalls = g.repoCalls,
                   !.gateCalls = 1,
                   !.logged = g.logged]

(***************************************************************************)
(* Actions: one per call a caller can make, and the store going down and   *)
(* coming back.                                                            *)
(***************************************************************************)
Init ==
  /\ store = {}
  /\ storeUp = TRUE
  /\ last = NoCall
  /\ calls = <<>>
  /\ applied = <<>>

\* Call_isBanned with a fault: the member looked up is taken out of the set
Call_isBanned_Removing(email) ==
  /\ last' = isBanned(email)
  /\ store' = IF storeUp THEN unbanned(store, email) ELSE store
  /\ UNCHANGED <<storeUp, calls, applied>>

Call_isBanned(email) ==
  /\ last' = isBanned(email)
  /\ UNCHANGED <<store, storeUp, calls, applied>>

Call_ban(email) ==
  /\ ~storeUp \/ Cardinality(banned(store, email)) <= MaxStore
  /\ last' = ban(email)
  /\ store' = IF storeUp THEN banned(store, email) ELSE store
  /\ UNCHANGED <<storeUp, calls, applied>>

Call_unban(email) ==
  /\ last' = unban(email)
  /\ store' = IF storeUp THEN unbanned(store, email) ELSE store
  /\ UNCHANGED <<storeUp, calls, applied>>

Call_getAllBanned ==
  /\ last' = getAllBanned
  /\ UNCHANGED <<store, storeUp, calls, applied>>

Call_clear ==
  /\ last' = clear
  /\ store' = IF storeUp THEN cleared(store) ELSE store
  /\ UNCHANGED <<storeUp, calls, applied>>

Call_isBlocked(email) ==
  /\ last' = isBlocked(email)
  /\ UNCHANGED <<store, storeUp, calls, applied>>

Call_create(email) ==
  /\ last' = create(email)
  /\ UNCHANGED <<store, storeUp, calls, applied>>

Call_createWithAntiSpam(email) ==
  /\ last' = createWithAntiSpam(email)
  /\ UNCHANGED <<store, storeUp, calls, applied>>

Call_EmailWithoutSpan_create(email) ==
  /\ last' = EmailWithoutSpan_create(email)
  /\ UNCHANGED <<store, storeUp, calls, applied>>

Call_EmailWithoutSpan_isValid(email) ==
  /\ last' = EmailWithoutSpan_isValid(email)
  /\ UNCHANGED <<store, storeUp, calls, applied>>

StoreGoesDown ==
  /\ storeUp
  /\ storeUp' = FALSE
  /\ UNCHANGED <<store, last, calls, applied>>

StoreComesBack ==
  /\ ~storeUp
  /\ storeUp' = TRUE
  /\ UNCHANGED <<store, last, calls, applied>>

Next ==
  \/ \E email \in Inputs : Call_isBanned(email)
  \/ \E email \in Inputs : Call_ban(email)
  \/ \E email \in Inputs : Call_unban(email)
  \/ Call_getAllBanned
  \/ Call_clear
  \/ \E email \in Inputs : Call_isBlocked(email)
  \/ \E email \in Inputs : Call_create(email)
  \/ \E email \in Inputs : Call_createWithAntiSpam(email)
  \/ \E email \in Inputs : Call_EmailWithoutSpan_create(email)
  \/ \E email \in Inputs : Call_EmailWithoutSpan_isValid(email)
  \/ StoreGoesDown
  \/ StoreComesBack

Spec == Init /\ [][Next]_vars

(***************************************************************************)
(* Construction of an Email and its accessors, on their own: the input is  *)
(* drawn at the start, one of the two entry points is applied to it, and   *)
(* the accessors are called on the Email that came back.  The inputs are   *)
(* every string of at most MaxLen characters over a small alphabet, the    *)
(* inputs of the calls above, and addresses at the length limit.           *)
(***************************************************************************)
\* largest length of the strings enumerated in full
MaxLen == 5

Alphabet == {"a", "A", "@", ".", " "}

Strings == UNION {[1..n -> Alphabet] : n \in 0..MaxLen}

\* an address of n characters: a...a@a.a
LongAddr(n) ==
  [i \in 1..n |-> IF i = n - 3 THEN "@" ELSE IF i = n - 1 THEN "." ELSE "a"]

LongInputs ==
  UNION {Paddings(LongAddr(n)) : n \in {MaxEmailLength, MaxEmailLength + 1}}

EmailInputs == Strings \cup Inputs \cup LongInputs

InitEmail ==
  /\ store = {}
  /\ storeUp = TRUE
  /\ \E email \in EmailInputs : last = [NoCall EXCEPT !.arg = email]
  /\ calls = <<>>
  /\ applied = <<>>

New_create ==
  /\ last.op = "none"
  /\ Call_create(last.arg)

New_createWithAntiSpam ==
  /\ last.op = "none"
  /\ Call_createWithAntiSpam(last.arg)

\* the caller holds an Email
HoldsEmail == last.outcome = "returned" /\ last.value # <<>>

Call_getDomain ==
  /\ HoldsEmail
  /\ last' = [last EXCEPT !.op = "getDomain", !.part = getDomain(last.value)]
  /\ UNCHANGED <<store, storeUp, calls, applied>>

Call_getUserPart ==
  /\ HoldsEmail
  /\ last' = [last EXCEPT !.op = "getUserPart",
                          !.part = getUserPart(last.value)]
  /\ UNCHANGED <<store, storeUp, calls, applied>>

\* emailValidatorServiceAllowsNamesA_K: new Set(Array.from('ABCDEFGHIJK'))
allowedInitials ==
  {<<letter>> : letter \in {"A", "B", "C", "D", "E", "F", "G", "H", "I", "J", "K"}}

\* emailValidatorServiceAllowsNamesA_K.isValid, on the value of an Email:
\*   const firstLetter = email.getUserPart().toUpperCase();
\*   return this.allowedInitials.has(firstLetter);
allowsNamesA_K(value) ==
  LET firstLetter == toUpperCase(getUserPart(value))
  IN  firstLetter \in allowedInitials

Call_allowsNamesA_K ==
  /\ HoldsEmail
  /\ last' = [last EXCEPT !.op = "allowsNamesA_K",
                          !.ret = allowsNamesA_K(last.value)]
  /\ UNCHANGED <<store, storeUp, calls, applied>>

NextEmail ==
  \/ New_create
  \/ New_createWithAntiSpam
  \/ Call_getDomain
  \/ Call_getUserPart
  \/ Call_allowsNamesA_K

SpecEmail == InitEmail /\ [][NextEmail]_vars

(***************************************************************************)
(* Concurrent callers.  Each caller makes one call; a call is cut at its   *)
(* awaits and at its report, where the other callers' calls interleave.    *)
(* The store applies one command at a time.                                *)
(*   "calling"   the call is made, its store command is not yet sent       *)
(*   "answered"  the Gate has the repository's answer                      *)
(*   "caught"    the Gate has caught the repository's error                *)
(*   "reported"  the Gate has reported the error                           *)
(*   "checked"   the Gate has returned to createWithAntiSpam               *)
(*   "done"      the call has returned or thrown                           *)
(***************************************************************************)
\* the number of concurrent callers
MaxCallers == 2

Callers == 1..MaxCallers

ConcurrentInputs == {Addr1, Addr2}

\* Addr1 as a caller may type it: in upper case, with blanks around it
Addr1AsTyped == Blanks(MaxPad) \o toUpperCase(Addr1) \o Blanks(MaxPad)

\* the calls a concurrent caller can make: every call on Addr1, where the
\* callers conflict, and a ban of Addr2
Requests ==
  ({"isBanned", "ban", "unban", "isBlocked", "createWithAntiSpam"} \X {Addr1})
  \cup ({"getAllBanned", "clear"} \X {<<>>})
  \cup {<<"ban", Addr2>>, <<"createWithAntiSpam", Addr1AsTyped>>}

\* every caller has made its call; no store command has been sent yet
InitConcurrent ==
  /\ store \in SUBSET {toLowerCase(email) : email \in ConcurrentInputs}
  /\ storeUp = TRUE
  /\ last = NoCall
  /\ calls \in [Callers ->
                  {[Call(request[1], request[2]) EXCEPT !.pc = "calling"] :
                     request \in Requests}]
  /\ applied = <<>>

\* what the repository method `op` gives back in the current state
repositoryResult(op, email) ==
  CASE op = "isBanned" -> isBanned(email)
    [] op = "ban" -> ban(email)
    [] op = "unban" -> unban(email)
    [] op = "getAllBanned" -> getAllBanned
    [] op = "clear" -> clear

\* the set after the command of the repository method `op`
setAfter(op, email) ==
  CASE op = "ban" -> banned(store, email)
    [] op = "unban" -> unbanned(store, email)
    [] op = "clear" -> cleared(store)
    [] OTHER -> store

\* Repository_runs with a fault: the method writes back the set as it was
\* when the call was made, changed by its own command
Repository_runs_Stale(c) ==
  /\ calls[c].pc = "calling"
  /\ calls[c].op \in {"isBanned", "ban", "unban", "getAllBanned", "clear"}
  /\ calls' = [calls EXCEPT ![c] = repositoryResult(calls[c].op, calls[c].arg)]
  /\ store' = IF ~storeUp THEN store
              ELSE CASE calls[c].op = "ban" ->
                          banned(calls[c].before, calls[c].arg)
                     [] calls[c].op = "unban" ->
                          unbanned(calls[c].before, calls[c].arg)
                     [] calls[c].op = "clear" -> cleared(store)
                     [] OTHER -> store
  /\ applied' = IF storeUp THEN Append(applied, c) ELSE applied
  /\ UNCHANGED <<storeUp, last>>

\* the one store command of a repository method of caller c, and its return
Repository_runs(c) ==
  /\ calls[c].pc = "calling"
  /\ calls[c].op \in {"isBanned", "ban", "unban", "getAllBanned", "clear"}
  /\ calls' = [calls EXCEPT ![c] = repositoryResult(calls[c].op, calls[c].arg)]
  /\ store' = IF storeUp THEN setAfter(calls[c].op, calls[c].arg) ELSE store
  /\ applied' = IF storeUp THEN Append(applied, c) ELSE applied
  /\ UNCHANGED <<storeUp, last>>

\* isBlocked: await this.bannedEmailRepository.isBanned(email), for a call
\* of isBlocked or for the check of createWithAntiSpam
Gate_asks(c) ==
  /\ calls[c].pc = "calling"
  /\ calls[c].op \in {"isBlocked", "createWithAntiSpam"}
  /\ LET r == isBanned(calls[c].arg)
     IN  calls' = [calls EXCEPT
                     ![c] = [@ EXCEPT
                               !.pc = IF r.outcome = "returned"
                                      THEN "answered" ELSE "caught",
                               !.ret = r.ret,
                               !.storeOps = r.storeOps,
                               !.repoCalls = 1,
                               !.before = r.before]]
  /\ applied' = IF storeUp THEN Append(applied, c) ELSE applied
  /\ UNCHANGED <<store, storeUp, last>>

\* Gate_reports with a fault: the catch block reports nothing
Gate_reports_Silent(c) ==
  /\ calls[c].pc = "caught"
  /\ calls' = [calls EXCEPT ![c] = [@ EXCEPT !.pc = "reported"]]
  /\ UNCHANGED <<store, storeUp, last, applied>>

\* isBlocked, catch: console.error('Failed to check banned email list:', error)
Gate_reports(c) ==
  /\ calls[c].pc = "caught"
  /\ calls' = [calls EXCEPT ![c] = [@ EXCEPT !.pc = "reported",
                                             !.logged = @ + 1]]
  /\ UNCHANGED <<store, storeUp, last, applied>>

\* isBlocked returns: the repository's answer, or false after the report
Gate_returns(c) ==
  /\ calls[c].pc \in {"answered", "reported"}
  /\ calls' = [calls EXCEPT
                 ![c] = [@ EXCEPT
                           !.pc = IF calls[c].op = "isBlocked"
                                  THEN "done" ELSE "checked",
                           !.ret = IF calls[c].pc = "reported"
                                   THEN FALSE ELSE @]]
  /\ UNCHANGED <<store, storeUp, last, applied>>

\* constructed with a fault: the set is looked at again before the Email is
\* built
constructed_Rechecks(r) ==
  LET from == [r EXCEPT !.pc = "done", !.ret = FALSE, !.gateCalls = 1]
  IN  IF r.ret \/ (storeUp /\ isBannedIn(store, r.arg))
      THEN [from EXCEPT !.outcome = "thrown",
                        !.error = "Blocked",
                        !.carried = r.arg]
      ELSE Email(from, r.arg)

\* createWithAntiSpam after its await: throw Blocked, or new Email(email)
constructed(r) ==
  LET from == [r EXCEPT !.pc = "done", !.ret = FALSE, !.gateCalls = 1]
  IN  IF r.ret
      THEN [from EXCEPT !.outcome = "thrown",
                        !.error = "Blocked",
                        !.carried = r.arg]
      ELSE Email(from, r.arg)

Email_constructs(c) ==
  /\ calls[c].pc = "checked"
  /\ calls' = [calls EXCEPT ![c] = constructed(calls[c])]
  /\ UNCHANGED <<store, storeUp, last, applied>>

NextConcurrent ==
  \/ \E c \in Callers : Repository_runs(c)
  \/ \E c \in Callers : Gate_asks(c)
  \/ \E c \in Callers : Gate_reports(c)
  \/ \E c \in Callers : Gate_returns(c)
  \/ \E c \in Callers : Email_constructs(c)
  \/ StoreGoesDown
  \/ StoreComesBack

SpecConcurrent == InitConcurrent /\ [][NextConcurrent]_vars

(***************************************************************************)
(* Vocabulary of the properties.  These say what the properties mean by    *)
(* "the same address"; they do not go through toLowerCase or trim.         *)
(***************************************************************************)
\* x and y differ only in letter case
SameButCase(x, y) ==
  /\ Len(x) = Len(y)
  /\ \A i \in 1..Len(x) : LowerChar(x[i]) = LowerChar(y[i])

\* s without the blanks around it
Stripped(s) ==
  LET inside == {i \in 1..Len(s) : ~IsSpace(s[i])}
  IN  IF inside = {} THEN <<>>
      ELSE SubSeq(s, CHOOSE i \in inside : \A k \in 1..(i - 1) : IsSpace(s[k]),
                     CHOOSE j \in inside :
                       \A k \in (j + 1)..Len(s) : IsSpace(s[k]))

\* x and y differ only in letter case and in the blanks around them
SameButCaseAndBlanks(x, y) == SameButCase(Stripped(x), Stripped(y))

\* s is in lower case
IsLowerCase(s) == \A i \in 1..Len(s) : s[i] \notin UpperLetters

\* s has no blank before or after it
IsTrimmed(s) == s = <<>> \/ (~IsSpace(s[1]) /\ ~IsSpace(s[Len(s)]))

\* the normal form of s: trimmed and lower-cased
NormalForm(s) == [i \in 1..Len(Stripped(s)) |-> LowerChar(Stripped(s)[i])]

\* s in lower case
LowerForm(s) == [i \in 1..Len(s) |-> LowerChar(s[i])]

\* the last call was `op`, and it returned
Returned(op) == last.op = op /\ last.outcome = "returned"

(***************************************************************************)
(* C1  Fail-open.  Whenever the repository's isBanned fails, the Gate's    *)
(* isBlocked returns false for the same argument and throws nothing; and a *)
(* call of isBlocked never ends in a throw.                                *)
(***************************************************************************)
C1_FailOpen ==
  /\ \A email \in Inputs :
       isBanned(email).outcome = "thrown" =>
         /\ isBlocked(email).outcome = "returned"
         /\ isBlocked(email).ret = FALSE
  /\ last.op = "isBlocked" =>
       /\ last.outcome = "returned"
       /\ last.error = "none"
       /\ (last.logged > 0 => last.ret = FALSE)

\* isBlocked was called on a banned address while the store was down, and
\* answered false
C1_Witness ==
  /\ last.op = "isBlocked"
  /\ last.logged = 1
  /\ isBannedIn(last.before, last.arg)
  /\ last.outcome = "returned"
  /\ last.ret = FALSE

(***************************************************************************)
(* C2  Blocked addresses never produce an identity.  With the store        *)
(* available, createWithAntiSpam of a string whose normal form (trimmed,   *)
(* lower-cased) is a member of the banned set throws Blocked and returns   *)
(* no Email.  The formula states what the claim is named for, and what     *)
(* throwing Blocked implies: the call ends in a throw and no Email comes   *)
(* back.                                                                   *)
(***************************************************************************)
C2_BlockedNeverConstructed ==
  (/\ last.op = "createWithAntiSpam"
   /\ last.logged = 0
   /\ NormalForm(last.arg) \in last.before)
  => (/\ last.outcome = "thrown"
      /\ last.value = <<>>)

MostRecentWrite(same(_, _)) ==
  /\ last.op = "none" => \A x \in Inputs : ~isBannedIn(store, x)
  /\ \A x \in Inputs :
       LET now == isBannedIn(store, x)
           was == isBannedIn(last.before, x)
       IN  CASE Returned("ban") /\ same(last.arg, x) -> now = TRUE
             [] Returned("unban") /\ same(last.arg, x) -> now = FALSE
             [] Returned("clear") -> now = FALSE
             [] OTHER -> now = was

C5_SyntaxBeforeGate ==
  (last.op = "createWithAntiSpam" /\ ~isValid(trim(last.arg))) =>
    /\ last.outcome = "thrown"
    /\ last.error = "InvalidFormat"

(***************************************************************************)
(* C6  When the repository's isBanned succeeds, the Gate's isBlocked       *)
(* returns exactly its result, for banned and non-banned addresses alike.  *)
(***************************************************************************)
C6_VerbatimOnSuccess ==
  /\ \A email \in Inputs :
       isBanned(email).outcome = "returned" =>
         /\ isBlocked(email).outcome = "returned"
         /\ isBlocked(email).ret = isBanned(email).ret
  /\ (last.op = "isBlocked" /\ last.logged = 0) =>
       last.ret = isBannedIn(last.before, last.arg)

\* isBlocked answered true for a banned address, and would answer false for
\* another one
C6_Witness ==
  /\ last.op = "isBlocked"
  /\ last.logged = 0
  /\ last.ret = TRUE
  /\ storeUp
  /\ \E email \in Inputs : isBlocked(email).ret = FALSE

(***************************************************************************)
(* C7  StoreUnavailable never passes the Gate.  While the store is down,   *)
(* isBlocked returns false and createWithAntiSpam of any syntactically     *)
(* valid address, banned or not, returns an Email; the only rejections of  *)
(* a construction are InvalidFormat and Blocked.                           *)
(***************************************************************************)
C7_StoreUnavailableAbsorbed ==
  /\ ~storeUp =>
       \A email \in Inputs :
         /\ isBlocked(email).outcome = "returned"
         /\ isBlocked(email).ret = FALSE
         /\ isValid(trim(email)) =>
              /\ createWithAntiSpam(email).outcome = "returned"
              /\ createWithAntiSpam(email).value # <<>>
  /\ \A email \in Inputs :
       /\ createWithAntiSpam(email).outcome = "thrown" =>
            createWithAntiSpam(email).error \in {"InvalidFormat", "Blocked"}
       /\ create(email).outcome = "thrown" =>
            create(email).error \in {"InvalidFormat", "Blocked"}
  /\ (last.op \in {"create", "createWithAntiSpam"}
      /\ last.outcome = "thrown") =>
       last.error \in {"InvalidFormat", "Blocked"}

\* a banned address was constructed through the Gate while the store was
\* down
C7_Witness ==
  /\ Returned("createWithAntiSpam")
  /\ last.logged = 1
  /\ isBannedIn(last.before, last.arg)
  /\ last.value # <<>>

(***************************************************************************)
(* C8  ban is idempotent: ban(x) followed by isBanned(x) returns true, and *)
(* the banned set after ban(x); ban(x) is the set after one ban(x).        *)
(* Stated in the state that ban(x) leaves, with the store available.       *)
(***************************************************************************)
C8_BanIdempotent ==
  (Returned("ban") /\ storeUp) =>
    /\ isBanned(last.arg).ret = TRUE
    /\ banned(store, last.arg) = store

\* an address that was banned already was banned again
C8_Witness ==
  /\ Returned("ban")
  /\ storeUp
  /\ isBannedIn(last.before, last.arg)
  /\ store = last.before

(***************************************************************************)
(* C9  unban removes and is idempotent: ban(x); unban(x); isBanned(x)      *)
(* returns false; unban of a non-member succeeds and leaves the set as it  *)
(* was; unban(x) leaves every other member in place.                       *)
(***************************************************************************)
C9_UnbanRemoves ==
  /\ (Returned("ban") /\ storeUp) =>
       isBannedIn(unbanned(store, last.arg), last.arg) = FALSE
  /\ (last.op = "unban" /\ last.storeOps = <<"srem">> /\ last.error = "none") =>
       /\ last.outcome = "returned"
       /\ ~isBannedIn(store, last.arg)
       /\ LowerForm(last.arg) \notin last.before => store = last.before
       /\ \A m \in last.before : m # LowerForm(last.arg) => m \in store
       /\ store \subseteq last.before

\* an unban took a member out and left another in place
C9_Witness ==
  /\ Returned("unban")
  /\ LowerForm(last.arg) \in last.before
  /\ LowerForm(last.arg) \notin store
  /\ store # {}

\* an unban of a non-member returned
C9_WitnessNonMember ==
  /\ Returned("unban")
  /\ LowerForm(last.arg) \notin last.before
  /\ last.before # {}

(***************************************************************************)
(* C10  getAllBanned returns every current member, each in normalized      *)
(* form, with no duplicates: banning several case variants of one address  *)
(* yields one entry, and banning two distinct addresses, in any case       *)
(* variants, yields exactly two normalized entries.                        *)
(***************************************************************************)
\* what getAllBanned gave back, when `form` is the form members are claimed
\* to be returned in and `same` tells which arguments name the same address
AllBannedOnce(form(_), same(_, _)) ==
  /\ Returned("getAllBanned") =>
       /\ BagToSet(last.members) = {form(m) : m \in last.before}
       /\ \A s \in BagToSet(last.members) :
            last.members[s] = 1 /\ form(s) = s
       /\ BagCardinality(last.members) = Cardinality(last.before)
  /\ (Returned("ban") /\ storeUp) =>
       \A y \in Inputs :
         /\ SameButCase(last.arg, y) =>
              allBanned(banned(store, y)) = allBanned(store)
         /\ (~same(last.arg, y) /\ last.before = {}) =>
              /\ BagCardinality(allBanned(banned(store, y))) = 2
              /\ \A s \in BagToSet(allBanned(banned(store, y))) : form(s) = s

C11_ClearEmpties ==
  (Returned("clear") /\ storeUp) =>
    /\ getAllBanned.outcome = "returned"
    /\ getAllBanned.members = EmptyBag
    /\ \A x \in Inputs :
         /\ isBanned(x).ret = FALSE
         /\ isBannedIn(banned(store, x), x) = TRUE
         /\ BagToSet(allBanned(banned(store, x))) = {LowerForm(x)}

\* clear() was called on a set that had members
C11_Witness ==
  /\ Returned("clear")
  /\ storeUp
  /\ last.before # {}
  /\ store = {}

(***************************************************************************)
(* C12  The repository is failure-transparent: when the store call fails,  *)
(* each of isBanned, ban, unban, getAllBanned and clear fails to its       *)
(* caller with StoreUnavailable instead of returning a default value,      *)
(* after one attempt and without reporting or retrying, and the banned set *)
(* is left unchanged.                                                      *)
(***************************************************************************)
RepositoryOps == {"isBanned", "ban", "unban", "getAllBanned", "clear"}

FailsTransparently(r) ==
  /\ r.outcome = "thrown"
  /\ r.error = "StoreUnavailable"
  /\ Len(r.storeOps) = 1
  /\ r.logged = 0

C12_FailureTransparent ==
  /\ ~storeUp =>
       /\ \A x \in Inputs :
            /\ FailsTransparently(isBanned(x))
            /\ FailsTransparently(ban(x))
            /\ FailsTransparently(unban(x))
       /\ FailsTransparently(getAllBanned)
       /\ FailsTransparently(clear)
  /\ (last.op \in RepositoryOps /\ last.outcome = "thrown") =>
       /\ FailsTransparently(last)
       /\ store = last.before

\* a ban of a new address failed while the set had members, and the set is
\* as it was
C12_Witness ==
  /\ last.op = "ban"
  /\ last.outcome = "thrown"
  /\ last.error = "StoreUnavailable"
  /\ last.before # {}
  /\ ~isBannedIn(last.before, last.arg)
  /\ store = last.before

ReadOps == {"isBanned", "getAllBanned", "isBlocked"}

\* the store answered the last call
Answered == last.error # "StoreUnavailable" /\ last.logged = 0

C14_ReadsHaveNoEffect ==
  last.op \in ReadOps =>
    /\ store = last.before
    /\ (storeUp <=> Answered) =>
         /\ last.op = "isBanned" => isBanned(last.arg) = last
         /\ last.op = "getAllBanned" => getAllBanned = last
         /\ last.op = "isBlocked" => isBlocked(last.arg) = last

\* a member was looked up and found, and is still there
C14_Witness ==
  /\ Returned("isBanned")
  /\ last.ret = TRUE
  /\ storeUp
  /\ isBanned(last.arg).ret = TRUE

(***************************************************************************)
(* Vocabulary of the claims about the syntax of an address.                *)
(***************************************************************************)
\* the positions of character c in s
Positions(s, c) == {i \in 1..Len(s) : s[i] = c}

HasAt(s) == Positions(s, "@") # {}

\* the position of the first '@' of s, for an s that has one
FirstAt(s) == CHOOSE i \in Positions(s, "@") : \A k \in Positions(s, "@") : i <= k

\* s has an '@' and no '.' after the first one
DomainLacksDot(s) ==
  HasAt(s) /\ \A i \in Positions(s, ".") : i < FirstAt(s)

ContainsDotDot(s) == \E i \in Positions(s, ".") : (i + 1) \in Positions(s, ".")

\* the limit of the length of an address
LengthLimit == 254

\* the last call ended in the rejection `error`
Rejected(error) == last.outcome = "thrown" /\ last.error = error

(***************************************************************************)
(* C15 as stated.  Every input that lacks an '@', or whose domain lacks a  *)
(* '.', or that contains '..', or whose length is 0 or greater than 254,   *)
(* is rejected by Email.create with InvalidFormat.  The length here is the *)
(* length of the input as the caller passed it.                            *)
(***************************************************************************)
C15_RejectsByRawLength ==
  (/\ last.op = "create"
   /\ \/ ~HasAt(last.arg)
      \/ DomainLacksDot(last.arg)
      \/ ContainsDotDot(last.arg)
      \/ Len(last.arg) = 0
      \/ Len(last.arg) > LengthLimit)
  => Rejected("InvalidFormat")

(***************************************************************************)
(* C15 as the code has it.  Every input that lacks an '@', or whose domain *)
(* lacks a '.', or that contains '..', or whose length without the blanks  *)
(* around it is 0 or greater than 254, is rejected by Email.create with    *)
(* InvalidFormat: the length is measured after trimming.                   *)
(***************************************************************************)
C15_RejectsByTrimmedLength ==
  (/\ last.op = "create"
   /\ \/ ~HasAt(last.arg)
      \/ DomainLacksDot(last.arg)
      \/ ContainsDotDot(last.arg)
      \/ Len(Stripped(last.arg)) = 0
      \/ Len(Stripped(last.arg)) > LengthLimit)
  => Rejected("InvalidFormat")

\* create rejected an address that is well formed but one character too long
C15_Witness ==
  /\ last.op = "create"
  /\ Rejected("InvalidFormat")
  /\ HasAt(last.arg) /\ ~DomainLacksDot(last.arg) /\ ~ContainsDotDot(last.arg)
  /\ Len(Stripped(last.arg)) = LengthLimit + 1

(***************************************************************************)
(* C16  Normalization is canonical.  When Email.create has built an Email  *)
(* from an input, every input that differs from it only in letter case and *)
(* in the blanks around it builds an Email too, with the identical stored  *)
(* value, and the two Emails are equal; and one of the callers' inputs    *)
(* builds an Email equal to it only if it differs in nothing else.         *)
(***************************************************************************)
C16_NormalizationCanonical ==
  (Returned("create") /\ last.value # <<>>) =>
    LET mine == Stripped(last.arg)
    IN  /\ \A y \in EmailInputs :
             SameButCase(mine, Stripped(y)) =>
               /\ create(y).outcome = "returned"
               /\ create(y).value = last.value
               /\ equals(create(y).value, last.value)
        /\ \A y \in Inputs :
             (create(y).outcome = "returned"
                /\ equals(create(y).value, last.value))
               => SameButCase(mine, Stripped(y))

\* an Email built from an upper-case input with blanks around it, and a
\* lower-case input without blanks that builds the same value
C16_Witness ==
  /\ Returned("create") /\ last.value # <<>>
  /\ ~IsLowerCase(last.arg) /\ ~IsTrimmed(last.arg)
  /\ \E y \in EmailInputs :
       /\ IsLowerCase(y) /\ IsTrimmed(y)
       /\ SameButCaseAndBlanks(last.arg, y)
       /\ equals(create(y).value, last.value)

(***************************************************************************)
(* C17  The plain constructor is independent of the anti-spam subsystem.   *)
(* A call of Email.create makes no call to the Gate, the repository or the *)
(* store and leaves the set as it was; in every state, whatever the banned *)
(* set holds and whether the store is available or not, what Email.create  *)
(* gives for an input is decided by the input alone: an Email of its       *)
(* normal form when the syntax rule accepts its stripped form, and an      *)
(* InvalidFormat rejection otherwise; and for an accepted input that is    *)
(* banned, Email.createWithAntiSpam of the same string fails with Blocked. *)
(***************************************************************************)
\* what a caller sees of the result r of a construction
Seen(r) == <<r.outcome, r.value, r.error, r.carried>>

\* what the input alone decides
Built(x) == <<"returned", NormalForm(x), NoCall.error, NoCall.carried>>
Refused(x) == <<"thrown", NoCall.value, "InvalidFormat", x>>

C17_PlainIndependent ==
  /\ last.op = "create" =>
       /\ store = last.before
       /\ last.storeOps = <<>>
       /\ last.repoCalls = 0
       /\ last.gateCalls = 0
       /\ last.logged = 0
  /\ \A x \in Inputs :
       /\ Seen(create(x)) = IF isValid(Stripped(x)) THEN Built(x) ELSE Refused(x)
       /\ (storeUp /\ isBanned(x).ret = TRUE /\ isValid(Stripped(x))) =>
            /\ Seen(create(x)) = Built(x)
            /\ createWithAntiSpam(x).outcome = "thrown"
            /\ createWithAntiSpam(x).error = "Blocked"

\* Email.create built an Email from an address that is banned
C17_Witness ==
  /\ Returned("create") /\ last.value # <<>>
  /\ storeUp
  /\ isBanned(last.arg).ret = TRUE
  /\ createWithAntiSpam(last.arg).error = "Blocked"

(***************************************************************************)
(* C18  Identity invariant.  The stored string of every Email that exists, *)
(* whichever entry point built it, is trimmed and in lower case, has       *)
(* exactly one '@' with something before it and something after it, has a  *)
(* '.' after the '@', has no '..', and has between 1 and 254 characters;   *)
(* and no step taken by the holder of an Email changes its stored string.  *)
(***************************************************************************)
WellFormed(v) ==
  /\ IsTrimmed(v)
  /\ IsLowerCase(v)
  /\ Cardinality(Positions(v, "@")) = 1
  /\ FirstAt(v) > 1
  /\ FirstAt(v) < Len(v)
  /\ ~DomainLacksDot(v)
  /\ ~ContainsDotDot(v)
  /\ Len(v) >= 1
  /\ Len(v) <= LengthLimit

C18_ValueWellFormed == last.value # <<>> => WellFormed(last.value)

C18_IdentityInvariant ==
  /\ []C18_ValueWellFormed
  /\ [][last.value # <<>> => last.value' = last.value]_vars

\* an accessor was called on an Email built from an input in upper case
C18_Witness ==
  /\ last.op = "getUserPart"
  /\ last.value # <<>>
  /\ ~IsLowerCase(last.arg)
  /\ last.value = NormalForm(last.arg)

(***************************************************************************)
(* C19  Accessors.  For every Email that exists, getUserPart gives the     *)
(* part of the stored string before its first '@' and getDomain the part   *)
(* after it; both give a string (neither fails), both are in lower case,   *)
(* and the user part, an '@' and the domain make up the stored string; and *)
(* what a call of an accessor returned is that part.                       *)
(***************************************************************************)
BeforeFirstAt(v) == SubSeq(v, 1, FirstAt(v) - 1)
AfterFirstAt(v) == SubSeq(v, FirstAt(v) + 1, Len(v))

C19_AccessorsSplitValue ==
  last.value # <<>> =>
    /\ getUserPart(last.value) = BeforeFirstAt(last.value)
    /\ getDomain(last.value) = AfterFirstAt(last.value)
    /\ getUserPart(last.value) # undefined
    /\ getDomain(last.value) # undefined
    /\ IsLowerCase(getUserPart(last.value))
    /\ IsLowerCase(getDomain(last.value))
    /\ getUserPart(last.value) \o <<"@">> \o getDomain(last.value) = last.value
    /\ last.op = "getUserPart" => last.part = BeforeFirstAt(last.value)
    /\ last.op = "getDomain" => last.part = AfterFirstAt(last.value)

\* getDomain was called on an Email built from an input in upper case with
\* a '.' in its user part
C19_Witness ==
  /\ last.op = "getDomain"
  /\ last.value # <<>>
  /\ ~IsLowerCase(last.arg)
  /\ Positions(BeforeFirstAt(last.value), ".") # {}
  /\ last.part = AfterFirstAt(last.value)

(***************************************************************************)
(* C20  The InvalidFormat rejection carries the input as passed.  Whenever *)
(* Email.create or Email.createWithAntiSpam ends in InvalidFormat, the     *)
(* rejection carries the caller's argument character for character, with   *)
(* its blanks and its letter case; and only these two calls end so.        *)
(***************************************************************************)
C20_InvalidFormatCarriesInput ==
  /\ Rejected("InvalidFormat") =>
       /\ last.op \in {"create", "createWithAntiSpam"}
       /\ last.carried = last.arg
  /\ \A x \in Inputs :
       /\ create(x).error = "InvalidFormat" => create(x).carried = x
       /\ createWithAntiSpam(x).error = "InvalidFormat"
            => createWithAntiSpam(x).carried = x

\* createWithAntiSpam rejected an upper-case input with blanks around it
C20_Witness ==
  /\ last.op = "createWithAntiSpam"
  /\ Rejected("InvalidFormat")
  /\ ~IsTrimmed(last.arg)
  /\ ~IsLowerCase(last.arg)
  /\ last.carried = last.arg

(***************************************************************************)
(* C21  The Blocked rejection carries the normalized address.  Whenever    *)
(* Email.createWithAntiSpam ends in Blocked, the rejection carries the     *)
(* argument trimmed and in lower case, and Blocked is not InvalidFormat.   *)
(***************************************************************************)
C21_BlockedCarriesNormalized ==
  Rejected("Blocked") =>
    /\ last.op = "createWithAntiSpam"
    /\ last.error # "InvalidFormat"
    /\ last.carried = NormalForm(last.arg)

(***************************************************************************)
(* C22  No retries.  Every call of a repository operation, whether it      *)
(* returns or fails, sends the store exactly one command, of the shape of  *)
(* the operation: membership test for isBanned, add-member for ban,        *)
(* remove-member for unban, enumerate-members for getAllBanned, delete-key *)
(* for clear; and every call of isBlocked calls the repository's isBanned  *)
(* exactly once, sending one membership test, also when that call fails.   *)
(***************************************************************************)
Shape(op) ==
  CASE op = "isBanned" -> "sismember"
    [] op = "ban" -> "sadd"
    [] op = "unban" -> "srem"
    [] op = "getAllBanned" -> "smembers"
    [] op = "clear" -> "del"

OneCommand(r, op) == r.op = op /\ r.storeOps = <<Shape(op)>>

OneCheck(r) ==
  r.op = "isBlocked" /\ r.repoCalls = 1 /\ r.storeOps = <<Shape("isBanned")>>

C22_NoRetries ==
  /\ last.op \in RepositoryOps => OneCommand(last, last.op)
  /\ last.op = "isBlocked" => OneCheck(last)
  /\ \A x \in Inputs :
       /\ OneCommand(isBanned(x), "isBanned")
       /\ OneCommand(ban(x), "ban")
       /\ OneCommand(unban(x), "unban")
       /\ OneCheck(isBlocked(x))
  /\ OneCommand(getAllBanned, "getAllBanned")
  /\ OneCommand(clear, "clear")

\* isBlocked was called while the store was down: the repository failed
C22_Witness ==
  /\ last.op = "isBlocked"
  /\ last.logged = 1
  /\ last.repoCalls = 1
  /\ Len(last.storeOps) = 1

(***************************************************************************)
(* C23  Error reporting order in the Gate.  In every call of isBlocked in  *)
(* which the repository fails, the Gate emits exactly one error report,    *)
(* and emits it before it returns false: once the failure is caught the    *)
(* only next step of the call is the report, the report takes the count of *)
(* reports from 0 to 1, and the return that follows gives false with that  *)
(* one report made.  A call in which the repository answers emits no       *)
(* report, and returns the repository's answer.  The repository fails      *)
(* exactly when the store is unavailable at the moment of the check.       *)
(***************************************************************************)
GateOps == {"isBlocked", "createWithAntiSpam"}

\* the Gate has returned to its caller
GateReturned(r) == r.op \in GateOps /\ r.pc \in {"done", "checked"}

C23_ReportBeforeReturn ==
  [][\A c \in Callers :
       LET r == calls[c]
           n == calls'[c]
       IN  r.op \in GateOps =>
             /\ (r.pc = "calling" /\ n.pc # "calling") =>
                  /\ n.pc = (IF storeUp THEN "answered" ELSE "caught")
                  /\ n.logged = 0
                  /\ n.repoCalls = 1
             /\ (r.pc = "caught" /\ n # r) =>
                  /\ n.pc = "reported"
                  /\ r.logged = 0
                  /\ n.logged = 1
             /\ (r.pc = "reported" /\ n # r) =>
                  /\ GateReturned(n)
                  /\ n.ret = FALSE
                  /\ n.logged = 1
                  /\ n.outcome = "returned"
             /\ (r.pc = "answered" /\ n # r) =>
                  /\ GateReturned(n)
                  /\ n.ret = r.ret
                  /\ n.logged = 0
             /\ GateReturned(r) => n.logged = r.logged]_vars

\* isBlocked has returned false after a failure it reported, at a moment
\* when the address is banned
C23_Witness ==
  \E c \in Callers :
    /\ calls[c].op = "isBlocked"
    /\ calls[c].pc = "done"
    /\ calls[c].logged = 1
    /\ calls[c].ret = FALSE
    /\ isBannedIn(store, calls[c].arg)

(***************************************************************************)
(* C24  The in-memory repository behaves as the Valkey repository.  For    *)
(* every sequence of repository calls from an empty set with the store     *)
(* available, the call just made on the Valkey repository and the same     *)
(* call made on the in-memory repository end the same way: both return or  *)
(* both throw, with the same boolean and the same members.                 *)
(***************************************************************************)
C24_InMemoryAsValkey ==
  (last.op \in RepositoryOps /\ last.error # "StoreUnavailable") =>
    LET r == inMemoryResult(last.op, last.arg)
    IN  /\ r.outcome = last.outcome
        /\ r.error = last.error
        /\ r.ret = last.ret
        /\ r.members = last.members

(***************************************************************************)
(* C25  The Gate and the repository hold no state of their own.  Whenever  *)
(* the store is available, whatever calls were made before, isBlocked      *)
(* answers for every email whether its lower-case form is a member of the  *)
(* set now; so right after a ban the Gate blocks the address, right after  *)
(* an unban it does not, and a call of isBlocked leaves the set as it was. *)
(***************************************************************************)
C25_GateStateless ==
  /\ storeUp =>
       \A x \in Inputs :
         /\ isBlocked(x).outcome = "returned"
         /\ isBlocked(x).ret = (LowerForm(x) \in store)
  /\ (Returned("ban") /\ storeUp) => isBlocked(last.arg).ret = TRUE
  /\ (Returned("unban") /\ storeUp) => isBlocked(last.arg).ret = FALSE
  /\ last.op = "isBlocked" => store = last.before

\* an address the Gate blocked before an unban is not blocked after it
C25_Witness ==
  /\ Returned("unban")
  /\ storeUp
  /\ LowerForm(last.arg) \in last.before
  /\ isBlocked(last.arg).ret = FALSE

(***************************************************************************)
(* C26  EmailWithoutSpan.isValid.  The instance method returns true for an *)
(* email the injected port does not block and false for an email the port  *)
(* blocks: with the Gate as the port and the store available at the call,  *)
(* it returns false exactly when the lower-case form of the email is a     *)
(* member of the set, and true when the Gate could not ask the store.      *)
(***************************************************************************)
C26_IsValidUnlessBlocked ==
  last.op = "EmailWithoutSpan.isValid" =>
    /\ last.outcome = "returned"
    /\ last.ret = IF last.logged = 0
                  THEN LowerForm(last.arg) \notin last.before
                  ELSE TRUE

(***************************************************************************)
(* C27  EmailWithoutSpan.create rejects bad input.  With the Gate as the   *)
(* port and the store available, create fails with Blocked carrying the    *)
(* email when the lower-case form of a well-formed email is a member of    *)
(* the set; it fails with InvalidFormat carrying the email when the email  *)
(* has no '@', is empty, or has nothing before or after its '@', and is    *)
(* not blocked; and for any other input it returns an object whose value   *)
(* is the email in lower case.                                             *)
(***************************************************************************)
BadSyntax(s) ==
  \/ Len(s) = 0
  \/ ~HasAt(s)
  \/ FirstAt(s) = 1
  \/ FirstAt(s) = Len(s)

C27_CreateRejectsBadInput ==
  (last.op = "EmailWithoutSpan.create" /\ storeUp) =>
    LET blocked == LowerForm(last.arg) \in store
    IN  /\ (blocked /\ ~BadSyntax(last.arg)) =>
             Rejected("Blocked") /\ last.carried = last.arg
        /\ (BadSyntax(last.arg) /\ ~blocked) =>
             Rejected("InvalidFormat") /\ last.carried = last.arg
        /\ (~BadSyntax(last.arg) /\ ~blocked) =>
             Returned("EmailWithoutSpan.create") /\ last.value = LowerForm(last.arg)

(***************************************************************************)
(* C30  The A to K validator.  emailValidatorServiceAllowsNamesA_K.isValid *)
(* returns true exactly when the first letter of the user part of the      *)
(* Email, in upper case, is one of the letters A to K, however long the    *)
(* user part is.                                                           *)
(***************************************************************************)
LettersAtoK == {"A", "B", "C", "D", "E", "F", "G", "H", "I", "J", "K"}

\* c in upper case, for a lower-case letter of the inputs
Capital(c) == CHOOSE u \in UpperLetters \cup {c} :
                IF \E v \in UpperLetters : LowerChar(v) = c /\ v # c
                THEN LowerChar(u) = c /\ u # c
                ELSE u = c

C30_FirstLetterAtoK ==
  last.op = "allowsNamesA_K" =>
    last.ret = (Capital(BeforeFirstAt(last.value)[1]) \in LettersAtoK)

(***************************************************************************)
(* Vocabulary of the properties of concurrent callers.                     *)
(***************************************************************************)
\* the call whose command the store applied as its i-th
Applied(i) == calls[applied[i]]

\* the set after a command, applied on its own to `set`
After(r, set) ==
  CASE r.op = "ban" -> set \cup {LowerForm(r.arg)}
    [] r.op = "unban" -> set \ {LowerForm(r.arg)}
    [] r.op = "clear" -> {}
    [] OTHER -> set

\* the set before the first command
InitialSet == IF applied = <<>> THEN store ELSE Applied(1).before

\* the set after the first i commands, applied one after the other
RECURSIVE InOrder(_)
InOrder(i) == IF i = 0 THEN InitialSet ELSE After(Applied(i), InOrder(i - 1))

\* the i-th command gave the answer that the set before it calls for
AnswersFor(r, set) ==
  /\ r.op = "isBanned" => r.ret = (LowerForm(r.arg) \in set)
  /\ r.op = "getAllBanned" =>
       BagToSet(r.members) = set /\ \A m \in set : r.members[m] = 1
  /\ (r.op = "isBlocked" /\ r.pc = "done") => r.ret = (LowerForm(r.arg) \in set)
  /\ r.op \in {"isBanned", "ban", "unban", "getAllBanned", "clear"} =>
       r.outcome = "returned"

\* the commands that write the address x: positions in `applied`
WritesOf(x) ==
  {i \in 1..Len(applied) :
     \/ Applied(i).op = "clear"
     \/ Applied(i).op \in {"ban", "unban"} /\ LowerForm(Applied(i).arg) = x}

(***************************************************************************)
(* C28  Concurrent repository calls are serialized by the store.  In every *)
(* state of every interleaving, the answers of the calls and the set are   *)
(* those of the same calls made one after the other in the order the store *)
(* applied their commands; the membership of an address is that left by    *)
(* the last command that wrote it (for a ban and an unban of the same      *)
(* address, the one applied last wins); and an address that no command     *)
(* wrote is a member exactly if it was one at the start.                   *)
(***************************************************************************)
C28_SerializedByStore ==
  /\ store = InOrder(Len(applied))
  /\ \A i \in 1..Len(applied) :
       /\ Applied(i).before = InOrder(i - 1)
       /\ AnswersFor(Applied(i), InOrder(i - 1))
  /\ \A x \in {LowerForm(email) : email \in ConcurrentInputs} :
       IF WritesOf(x) = {}
       THEN (x \in store) = (x \in InitialSet)
       ELSE LET latest == CHOOSE i \in WritesOf(x) :
                            \A k \in WritesOf(x) : k <= i
            IN  (x \in store) = (Applied(latest).op = "ban")

\* a ban and an unban of the same address by two callers: the ban was
\* applied first and added the address, the unban was applied last
C28_Witness ==
  \E i, j \in 1..Len(applied) :
    /\ i < j
    /\ Applied(i).op = "ban"
    /\ Applied(j).op = "unban"
    /\ Applied(i).arg = Applied(j).arg
    /\ LowerForm(Applied(i).arg) \notin Applied(i).before
    /\ LowerForm(Applied(i).arg) \notin store
    /\ WritesOf(LowerForm(Addr2)) = {}
    /\ LowerForm(Addr2) \in store

(***************************************************************************)
(* C29  Check-then-construct window of createWithAntiSpam.  The decision   *)
(* rests on the set as it was at the one check: whenever createWithAntiSpam *)
(* returned an Email and the store answered the check, the address was not *)
(* a member when the check was applied; and once the check has said "not   *)
(* blocked", the call goes on to build the Email whatever the set holds by *)
(* then, also when a concurrent caller has banned the address meanwhile.   *)
(***************************************************************************)
C29_CheckThenConstruct ==
  \A c \in Callers :
    LET r == calls[c]
    IN  r.op = "createWithAntiSpam" =>
          /\ (r.pc = "done" /\ r.outcome = "returned" /\ r.logged = 0) =>
               /\ r.value = NormalForm(r.arg)
               /\ LowerForm(r.arg) \notin r.before
          /\ r.pc = "checked" =>
               LET built == constructed(r)
               IN  IF r.ret
                   THEN /\ built.outcome = "thrown"
                        /\ built.error = "Blocked"
                        /\ LowerForm(r.arg) \in r.before
                   ELSE /\ built.outcome = "returned"
                        /\ built.value = NormalForm(r.arg)

\* createWithAntiSpam returned an Email for an address that a concurrent
\* caller banned after the check
C29_Witness ==
  \E c, d \in Callers :
    /\ calls[c].op = "createWithAntiSpam"
    /\ calls[c].pc = "done"
    /\ calls[c].outcome = "returned"
    /\ calls[c].value # <<>>
    /\ calls[c].logged = 0
    /\ calls[d].op = "ban"
    /\ calls[d].arg = calls[c].arg
    /\ \E i, j \in 1..Len(applied) : i < j /\ applied[i] = c /\ applied[j] = d
    /\ calls[c].value \in store

====
